---- MODULE Spec2Model ----
(***************************************************************************)
(* Verification model of the conformal-regression code of the repository.  *)
(*                                                                         *)
(* Three implementations live side by side in the source tree:             *)
(*   A  src/conformal_regress/{api,conformal,models,linalg}.py             *)
(*   B  src/conformal-regress/conformal_regress/{core/model.py,            *)
(*        conformal/methods.py, models/linear.py}                          *)
(*   C  src/conformal_regress/{core/model.py, conformal/base.py}           *)
(*                                                                         *)
(* Numbers are exact rationals [n, d] (d > 0); the record with d = 0 is    *)
(* the float NaN.  Miscoverage levels alpha are integer percentages        *)
(* (alpha = 0.05 is 5).  The design matrix has a single column x, so a fit *)
(* is the scalar beta and a prediction is x * beta.                        *)
(***************************************************************************)
EXTENDS Integers, Sequences, FiniteSets, TLC

VARIABLES rows,       \* the DataFrame the caller holds: Seq of [x, y, key]
          modelA,     \* the api.RegressModel bound by the caller (or None)
          retA,       \* outcome of the caller's last call into implementation A
          cal,        \* locals of the last compute_conformal_band run
          selIn,      \* arguments handed to auto_select_conformal_mode
          selOut,     \* its return value
          modelB,     \* the core.model.RegressModel of implementation B (or None)
          retB,       \* outcome of the caller's last call into implementation B
          np_random,  \* the global numpy generator: last seed, draws since
          loop,       \* the outer loop of a running iterative solver call
          sol,        \* arguments and outcome of the last direct solver call
          modelC,     \* the core.model.ConformalModel of implementation C
          retC        \* outcome of the caller's last call into implementation C

varsA == <<modelA, retA, cal>>
varsSel == <<selIn, selOut>>
varsB == <<modelB, retB, np_random>>
vars == <<rows, varsA, varsSel, varsB, loop, sol, modelC, retC>>

-----------------------------------------------------------------------------
(* Bounds of the model *)
MaxRows == 2
MaxY == 1
MaxSelN == 103
MaxSeed == 1
MaxDraws == 2
MaxHorizon == 2
MaxLongRows == 6

-----------------------------------------------------------------------------
(* Exact arithmetic standing in for numpy float64 *)

Abs(i) == IF i < 0 THEN -i ELSE i

RECURSIVE Gcd(_, _)
Gcd(a, b) == IF b = 0 THEN a ELSE Gcd(b, a % b)

Reduced(n, d, g) == IF d < 0 THEN [n |-> (-n) \div g, d |-> (-d) \div g]
                    ELSE [n |-> n \div g, d |-> d \div g]
R(n, d) == Reduced(n, d, Gcd(Abs(n), Abs(d)))

Zero == [n |-> 0, d |-> 1]
One == [n |-> 1, d |-> 1]
NaN == [n |-> 0, d |-> 0]
IsNaN(a) == a.d = 0
FromInt(i) == [n |-> i, d |-> 1]

RAdd(a, b) == IF IsNaN(a) \/ IsNaN(b) THEN NaN ELSE R(a.n * b.d + b.n * a.d, a.d * b.d)
RSub(a, b) == IF IsNaN(a) \/ IsNaN(b) THEN NaN ELSE R(a.n * b.d - b.n * a.d, a.d * b.d)
\* common factors are cancelled before multiplying, so 1e8-sized values stay in range
MulReduced(a, b, g1, g2) == R((a.n \div g1) * (b.n \div g2), (a.d \div g2) * (b.d \div g1))
RMul(a, b) == IF IsNaN(a) \/ IsNaN(b) THEN NaN
              ELSE MulReduced(a, b, Gcd(Abs(a.n), b.d), Gcd(Abs(b.n), a.d))
RInv(b) == IF b.n < 0 THEN [n |-> -b.d, d |-> -b.n] ELSE [n |-> b.d, d |-> b.n]
RDiv(a, b) == IF IsNaN(a) \/ IsNaN(b) \/ b.n = 0 THEN NaN ELSE RMul(a, RInv(b))
RAbs(a) == [n |-> Abs(a.n), d |-> a.d]
\* a <= b on rationals: whole parts first, then the fractional parts
LeqExact(a, b) ==
    IF a.n \div a.d # b.n \div b.d THEN a.n \div a.d < b.n \div b.d
    ELSE (a.n % a.d) * b.d <= (b.n % b.d) * a.d
\* IEEE comparisons: every comparison with NaN is false
RLeq(a, b) == ~IsNaN(a) /\ ~IsNaN(b) /\ LeqExact(a, b)
RLt(a, b) == ~IsNaN(a) /\ ~IsNaN(b) /\ ~LeqExact(b, a)
RMax(a, b) == IF RLt(a, b) THEN b ELSE a

\* min() of a tuple of Python numbers
RECURSIVE MinOfSeq(_)
MinOfSeq(s) == IF Len(s) = 1 THEN s[1]
               ELSE IF s[1] <= MinOfSeq(Tail(s)) THEN s[1] ELSE MinOfSeq(Tail(s))

\* np.sort of a float array (insertion into the sorted tail)
RECURSIVE InsertSorted(_, _)
InsertSorted(v, s) ==
    IF s = <<>> THEN <<v>>
    ELSE IF RLeq(v, Head(s)) THEN <<v>> \o s
    ELSE <<Head(s)>> \o InsertSorted(v, Tail(s))

RECURSIVE SortFloats(_)
SortFloats(s) == IF s = <<>> THEN <<>> ELSE InsertSorted(Head(s), SortFloats(Tail(s)))

\* linear interpolation between the order statistics around the virtual index
\* vn / vd of the sorted array s
Lerp(s, lo, hi, g) == RAdd(s[lo + 1], RMul(g, RSub(s[hi + 1], s[lo + 1])))
QuantileAt(s, vn, vd) ==
    Lerp(s, vn \div vd,
         IF (vn \div vd) + 1 > Len(s) - 1 THEN Len(s) - 1 ELSE (vn \div vd) + 1,
         R(vn % vd, vd))

\* np.quantile(a, level), default method "linear", on a non-empty array;
\* level is a rational in [0, 1]
Quantile(a, level) == QuantileAt(SortFloats(a), level.n * (Len(a) - 1), level.d)

\* the level 1 - a used by implementation A
NaiveLevel(a) == R(100 - a, 100)

\* CorrectedLevel with the miscoverage alpha taken for the level
MiscoverageLevel(n_cal, a) == R(a, 100)

\* min(ceil((n_cal + 1) * (1 - alpha)) / n_cal, 1.0), n_cal >= 1
CeilDiv100(v) == (v + 99) \div 100
CorrectedLevel(n_cal, a) ==
    IF CeilDiv100((n_cal + 1) * (100 - a)) >= n_cal THEN One
    ELSE R(CeilDiv100((n_cal + 1) * (100 - a)), n_cal)

-----------------------------------------------------------------------------
(* ModeSelector *)

Methods == {"ols", "ridge", "lasso", "robust", "quantile"}
Families == {"gaussian", "poisson"}

SwappedSelect(method, family, n) ==
    IF method = "ols" /\ family = "gaussian" THEN "conformal_thinning"
    ELSE IF n < 100 THEN "conformal_cross"
    ELSE "conformal_split"

auto_select_conformal_mode(method, family, n) ==
    IF n < 100 THEN "conformal_cross"
    ELSE IF method = "ols" /\ family = "gaussian" THEN "conformal_thinning"
    ELSE "conformal_split"

-----------------------------------------------------------------------------
(* Optional values (Python None) *)
None == <<>>
Some(v) == <<v>>
IsNone(o) == o = <<>>
Val(o) == o[1]

-----------------------------------------------------------------------------
(* Data: one DataFrame row is [x, y, key]; "date" is the column holding key *)

XVals == {0, 1}
KeyVals == {1, 2}
RowSet == [x : XVals, y : 0..MaxY, key : KeyVals]
\* longer frames: x = 0 in every third row, y = 1 in row p only, and a date
\* column that descends along the frame with every date shared by two rows
LongDatasets ==
    UNION {{[i \in 1..n |-> [x |-> IF i % 3 = 0 THEN 0 ELSE 1,
                              y |-> IF i = p THEN 1 ELSE 0,
                              key |-> ((n - i) \div 2) + 1]] : p \in 1..n}
           : n \in 3..MaxLongRows}
Datasets == UNION {[1..n -> RowSet] : n \in 0..MaxRows} \cup LongDatasets

\* build_matrices for the formula "y ~ 0 + x": y and the single column of X
build_y(data) == [i \in 1..Len(data) |-> FromInt(data[i].y)]
build_X(data) == [i \in 1..Len(data) |-> FromInt(data[i].x)]
DataColumns == {"x", "y", "date"}

\* numpy fancy indexing a[idx]
Take(a, idx) == [i \in 1..Len(idx) |-> a[idx[i]]]

\* a @ b, summed pairwise: the sum of the products over lo..hi is the sum over
\* the two halves of the range
Dot(a, b) ==
    LET part[lo \in 1..(Len(a) + 1), hi \in 0..Len(a)] ==
            IF lo > hi THEN Zero
            ELSE IF lo = hi THEN RMul(a[lo], b[lo])
            ELSE RAdd(part[lo, (lo + hi) \div 2], part[((lo + hi) \div 2) + 1, hi])
    IN part[1, Len(a)]

\* max(a, b), min(a, b) on Python ints
IMax(a, b) == IF a >= b THEN a ELSE b
IMin(a, b) == IF a <= b THEN a ELSE b

-----------------------------------------------------------------------------
(* LinearAlgebraCore and SolverLibrary, implementation A *)

\* the minimum-norm solution of the one-column system sxx * beta = sxy
SolveScalar(sxx, sxy) == IF sxx.n = 0 THEN Zero ELSE RDiv(sxy, sxx)

\* np.linalg.lstsq(X, y, rcond=None)[0]
lstsq(X, y) == SolveScalar(Dot(X, X), Dot(X, y))

\* np.linalg.inv, falling back to np.linalg.pinv on a singular matrix
inv_or_pinv(a) == IF a.n = 0 THEN Zero ELSE RDiv(One, a)

Residuals(X, y, beta) == [i \in 1..Len(y) |-> RSub(y[i], RMul(X[i], beta))]

SumSquares(e) == Dot(e, e)

\* (beta, sigma2, xtx_inv, hat_diag) from the coefficients and the inverse
Diagnostics(X, y, beta, a_inv, dof) ==
    [raised |-> "none",
     beta |-> beta,
     sigma2 |-> RDiv(SumSquares(Residuals(X, y, beta)), FromInt(dof)),
     xtx_inv |-> a_inv,
     hat_diag |-> Some([i \in 1..Len(y) |-> RMul(RMul(X[i], a_inv), X[i])])]

Raised(exc) == [raised |-> exc, beta |-> Zero, sigma2 |-> Zero, xtx_inv |-> Zero,
                hat_diag |-> None]

SolveAndDiagnose(X, y, sxx, sxy, dof) ==
    Diagnostics(X, y, SolveScalar(sxx, sxy), inv_or_pinv(sxx), dof)

\* (sqrt(w) x) . (sqrt(w) y) = w x y: the normal equations of the scaled rows Xw
WlsScaled(X, y, Xw) ==
    SolveAndDiagnose(X, y, Dot(Xw, X), Dot(Xw, y), IMax(Len(y) - 1, 1))

\* w is None or the sequence of observation weights
weighted_lstsq(X, y, w) ==
    WlsScaled(X, y, IF IsNone(w) THEN X ELSE [i \in 1..Len(X) |-> RMul(X[i], Val(w)[i])])

fit_ols(X, y) == weighted_lstsq(X, y, None)

RidgeSolve(X, y, A) ==
    IF A.n = 0 THEN Raised("LinAlgError")  \* np.linalg.solve on a singular A
    ELSE SolveAndDiagnose(X, y, A, Dot(X, y), IMax(Len(y) - 1, 1))

fit_ridge(X, y, alpha) == RidgeSolve(X, y, RAdd(Dot(X, X), alpha))

LassoMaxIter == 1000
LassoTol == [n |-> 1, d |-> 1000000]

\* SoftThreshold without the threshold: the least-squares coordinate update
PlainUpdate(rho, alpha, norm2, beta) == IF norm2.n = 0 THEN beta ELSE RDiv(rho, norm2)

\* soft-thresholding of the partial correlation rho of a column of squared norm norm2
SoftThreshold(rho, alpha, norm2, beta) ==
    IF norm2.n = 0 THEN beta
    ELSE IF RLt(rho, RSub(Zero, alpha)) THEN RDiv(RAdd(rho, alpha), norm2)
    ELSE IF RLt(alpha, rho) THEN RDiv(RSub(rho, alpha), norm2)
    ELSE Zero

\* one sweep of coordinate descent over the single column j = 0
LassoSweep(X, y, alpha, beta) ==
    SoftThreshold(Dot(X, [i \in 1..Len(y) |->
                            RAdd(RSub(y[i], RMul(X[i], beta)), RMul(X[i], beta))]),
                  alpha, Dot(X, X), beta)

\* the outer loop: beta at the exit, and the number of sweeps made
RECURSIVE LassoLoop(_, _, _, _, _, _)
LassoLoop(X, y, alpha, beta_old, beta, it) ==
    IF it > 0 /\ RLt(RAbs(RSub(beta, beta_old)), LassoTol) THEN [beta |-> beta, sweeps |-> it]
    ELSE IF it >= LassoMaxIter THEN [beta |-> beta, sweeps |-> it]
    ELSE LassoLoop(X, y, alpha, beta, LassoSweep(X, y, alpha, beta), it + 1)

LassoDiagnose(X, y, beta) ==
    Diagnostics(X, y, beta, inv_or_pinv(Dot(X, X)),
                IMax(Len(y) - (IF beta.n = 0 THEN 0 ELSE 1), 1))

fit_lasso(X, y, alpha) == LassoDiagnose(X, y, LassoLoop(X, y, alpha, Zero, Zero, 0).beta)

\* The IRLS loop returns the weighted solve of its last pass; the float weights
\* of that pass (each in (0, 1]) are the argument w.
HuberWeights == {One, R(1, 2)}
fit_huber(X, y, w) == weighted_lstsq(X, y, Some(w))

\* The sub-gradient loop's final iterate is the argument b (NaN on zero rows:
\* the gradient divides by m); the diagnostics are computed from it as in the code.
GradIterates == {Zero, One}
fit_quantile(X, y, b) ==
    Diagnostics(X, y, IF Len(y) = 0 THEN NaN ELSE b, inv_or_pinv(Dot(X, X)),
                IMax(Len(y) - 1, 1))

-----------------------------------------------------------------------------
(* Index helpers: shuffles, folds and stable argsort *)

RECURSIVE Factorial(_)
Factorial(n) == IF n <= 1 THEN 1 ELSE n * Factorial(n - 1)

RemoveAt(s, i) == SubSeq(s, 1, i - 1) \o SubSeq(s, i + 1, Len(s))

\* the k-th permutation (0-based, lexicographic) of the sequence s
RECURSIVE NthPerm(_, _)
NthPerm(s, k) ==
    IF s = <<>> THEN <<>>
    ELSE <<s[(k \div Factorial(Len(s) - 1)) + 1]>>
         \o NthPerm(RemoveAt(s, (k \div Factorial(Len(s) - 1)) + 1),
                    k % Factorial(Len(s) - 1))

\* np.arange(n) as 1-based row numbers
Arange(n) == [i \in 1..n |-> i]

\* A generator seeded with seed shuffles arange(n) into a permutation that is
\* a function of seed and n only.
Shuffled(seed, n) == NthPerm(Arange(n), seed % Factorial(n))

DefaultRngSeed == 12345

\* FoldLen with the remainder of n / k left out of every fold
FoldLenFloor(n, k, i) == n \div k

\* np.array_split(idx, k)[i], i = 0..k-1: the first n % k folds have one more element
FoldLen(n, k, i) == (n \div k) + (IF i < n % k THEN 1 ELSE 0)
FoldStart(n, k, i) == i * (n \div k) + IMin(i, n % k)
ArraySplit(idx, k, i) ==
    SubSeq(idx, FoldStart(Len(idx), k, i) + 1,
           FoldStart(Len(idx), k, i) + FoldLen(Len(idx), k, i))
\* np.hstack([folds[j] for j in range(k) if j != i])
OtherFolds(idx, k, i) ==
    SubSeq(idx, 1, FoldStart(Len(idx), k, i))
    \o SubSeq(idx, FoldStart(Len(idx), k, i) + FoldLen(Len(idx), k, i) + 1, Len(idx))

\* np.argsort(keys, kind="stable") as 1-based row numbers
\* row i goes in front of the later rows whose key is not smaller than its own
RECURSIVE InsertIdx(_, _, _)
InsertIdx(keys, i, s) ==
    IF s = <<>> THEN <<i>>
    ELSE IF keys[i] <= keys[Head(s)] THEN <<i>> \o s
    ELSE <<Head(s)>> \o InsertIdx(keys, i, Tail(s))

RECURSIVE ArgSortFrom(_, _)
ArgSortFrom(keys, i) ==
    IF i > Len(keys) THEN <<>>
    ELSE InsertIdx(keys, i, ArgSortFrom(keys, i + 1))

\* ArgSortStable with the rows left in their incoming order
IncomingOrder(keys) == [i \in 1..Len(keys) |-> i]

ArgSortStable(keys) == ArgSortFrom(keys, 1)

-----------------------------------------------------------------------------
(* CalibrationEngine, implementation A *)

\* alpha levels in percent
AlphaTuples == {<<10, 5>>, <<20>>, <<55>>}
SeqRange(s) == {s[i] : i \in 1..Len(s)}

\* _refit: plain least squares whatever the fitting method was
refit(X, y) == lstsq(X, y)

\* np.abs(y - X @ beta)
AbsResid(X, y, beta) == [i \in 1..Len(y) |-> RAbs(RSub(y[i], RMul(X[i], beta)))]

\* float(np.mean(scores <= q)); the mean of an empty array is NaN
FractionWithin(scores, q) ==
    IF Len(scores) = 0 THEN NaN
    ELSE R(Cardinality({i \in 1..Len(scores) : RLeq(scores[i], q)}), Len(scores))

\* The outcome of compute_conformal_band: the exception raised, or the returned
\* (qs, coverage, training_rows, calibration_rows). pool is the array handed to
\* np.quantile (None when the call never got that far); train_idx and cal_idx
\* are the locals of those names at the return (thinning, which has neither,
\* scores every row it was fitted on).
BandRaised(exc, mode) ==
    [raised |-> exc, mode |-> mode, qs |-> <<>>, coverage |-> NaN,
     training_rows |-> 0, calibration_rows |-> 0,
     pool |-> None, train_idx |-> <<>>, cal_idx |-> <<>>]

\* np.quantile raised on the pool
QuantileRaised(exc, mode, pool) == [BandRaised(exc, mode) EXCEPT !.pool = Some(pool)]

BandReturned(mode, qs, covered, min_a, n_train, n_cal, pool, train_idx, cal_idx) ==
    [raised |-> "none", mode |-> mode, qs |-> qs,
     coverage |-> FractionWithin(covered, qs[min_a]),
     training_rows |-> n_train, calibration_rows |-> n_cal,
     pool |-> Some(pool), train_idx |-> train_idx, cal_idx |-> cal_idx]

\* qs = {f"q_{a}": float(np.quantile(pool, 1 - a)) for a in alpha_levels}.
\* np.quantile of an empty array returns NaN or raises IndexError, depending on
\* the numpy release: empty names the outcome.
QuantilesOf(pool, alpha_levels, empty) ==
    IF pool = <<>> THEN [a \in SeqRange(alpha_levels) |-> NaN]
    ELSE [a \in SeqRange(alpha_levels) |-> Quantile(pool, NaiveLevel(a))]

BandFromPool(mode, pool, covered, alpha_levels, n_train, n_cal, train_idx, cal_idx, empty) ==
    IF pool = <<>> /\ empty = "IndexError" THEN QuantileRaised("IndexError", mode, pool)
    ELSE BandReturned(mode, QuantilesOf(pool, alpha_levels, empty), covered,
                      MinOfSeq(alpha_levels), n_train, n_cal, pool, train_idx, cal_idx)

ThinningEps == [n |-> 1, d |-> 100000000]

\* np.abs(e) / np.maximum(1.0 - hat_diag, 1e-8)
LooResid(abs_e, hat_diag) ==
    [i \in 1..Len(abs_e) |-> RDiv(abs_e[i], RMax(RSub(One, hat_diag[i]), ThinningEps))]

ThinningScored(abs_e, hat_diag, alpha_levels, empty) ==
    BandFromPool("conformal_thinning", LooResid(abs_e, hat_diag), abs_e, alpha_levels,
                 Len(abs_e), 0, Arange(Len(abs_e)), <<>>, empty)

ThinningBand(X, y, beta, hat_diag, alpha_levels, empty) ==
    IF IsNone(hat_diag) THEN BandRaised("ValueError", "conformal_thinning")
    ELSE ThinningScored(AbsResid(X, y, beta), Val(hat_diag), alpha_levels, empty)

\* HoldoutScored with the two bookkeeping counts exchanged
HoldoutSwapped(mode, resid, train_idx, cal_idx, alpha_levels, empty) ==
    BandFromPool(mode, resid, resid, alpha_levels, Len(cal_idx), Len(train_idx),
                 train_idx, cal_idx, empty)

\* the tail shared by the split and temporal branches: refit on the training
\* rows, score the calibration rows
HoldoutScored(mode, resid, train_idx, cal_idx, alpha_levels, empty) ==
    BandFromPool(mode, resid, resid, alpha_levels, Len(train_idx), Len(cal_idx),
                 train_idx, cal_idx, empty)

HoldoutBand(mode, X, y, train_idx, cal_idx, alpha_levels, empty) ==
    HoldoutScored(mode,
                  AbsResid(Take(X, cal_idx), Take(y, cal_idx),
                           refit(Take(X, train_idx), Take(y, train_idx))),
                  train_idx, cal_idx, alpha_levels, empty)

\* Cut rounding 0.8 n up
CutCeil(n) == (8 * n + 9) \div 10

\* idx[:cut], idx[cut:] with cut = int(0.8 * n)
Cut(n) == (8 * n) \div 10
HoldoutAt(mode, X, y, idx, alpha_levels, empty) ==
    HoldoutBand(mode, X, y, SubSeq(idx, 1, Cut(Len(idx))),
                SubSeq(idx, Cut(Len(idx)) + 1, Len(idx)), alpha_levels, empty)

SplitBand(X, y, alpha_levels, empty) ==
    HoldoutAt("conformal_split", X, y, Shuffled(DefaultRngSeed, Len(y)), alpha_levels, empty)

\* the residuals of folds i..k-1, each scored by a refit on the other folds
RECURSIVE CrossResids(_, _, _, _, _)
CrossResids(X, y, idx, k, i) ==
    IF i >= k THEN <<>>
    ELSE AbsResid(Take(X, ArraySplit(idx, k, i)), Take(y, ArraySplit(idx, k, i)),
                  refit(Take(X, OtherFolds(idx, k, i)), Take(y, OtherFolds(idx, k, i))))
         \o CrossResids(X, y, idx, k, i + 1)

CrossScored(resid, n, train_idx, cal_idx, alpha_levels, empty) ==
    BandFromPool("conformal_cross", resid, resid, alpha_levels, n - Len(resid), Len(resid),
                 train_idx, cal_idx, empty)

CrossFolds(X, y, idx, k, alpha_levels, empty) ==
    CrossScored(CrossResids(X, y, idx, k, 0), Len(y), OtherFolds(idx, k, k - 1),
                ArraySplit(idx, k, k - 1), alpha_levels, empty)

CrossBand(X, y, alpha_levels, empty) ==
    CrossFolds(X, y, Shuffled(DefaultRngSeed, Len(y)), IMin(5, IMax(2, Len(y))),
               alpha_levels, empty)

\* date_col is "None", or the name of a column
TemporalBand(X, y, data, alpha_levels, date_col, empty) ==
    IF date_col = "None" \/ date_col \notin DataColumns
    THEN BandRaised("ValueError", "conformal_temporal")
    ELSE HoldoutAt("conformal_temporal", X, y,
                   ArgSortStable([i \in 1..Len(data) |-> data[i].key]), alpha_levels, empty)

compute_conformal_band(X, y, beta, hat_diag, data, mode, alpha_levels, date_col, empty) ==
    CASE mode = "conformal_thinning" -> ThinningBand(X, y, beta, hat_diag, alpha_levels, empty)
      [] mode = "conformal_split" -> SplitBand(X, y, alpha_levels, empty)
      [] mode = "conformal_cross" -> CrossBand(X, y, alpha_levels, empty)
      [] mode = "conformal_temporal" -> TemporalBand(X, y, data, alpha_levels, date_col, empty)
      [] OTHER -> BandRaised("ValueError", mode)

-----------------------------------------------------------------------------
(* FittedModel and regress, implementation A *)

MethodArgs == Methods \cup {"bogus"}
FamilyArgs == {"gaussian"}
UncertaintyArgs == {None, Some("conformal"), Some("conformal_thinning"),
                    Some("conformal_split"), Some("conformal_cross"),
                    Some("conformal_temporal"), Some("bogus")}
DateColArgs == {"None", "date", "missing"}

\* float(kwargs.get("alpha", 1.0)): alpha is a named parameter of regress and
\* never lands in kwargs
KwargsAlpha == One

FitMethod(X, y, method, w, b) ==
    CASE method = "ols" -> fit_ols(X, y)
      [] method = "ridge" -> fit_ridge(X, y, KwargsAlpha)
      [] method = "lasso" -> fit_lasso(X, y, KwargsAlpha)
      [] method = "robust" -> fit_huber(X, y, w)
      [] method = "quantile" -> fit_quantile(X, y, b)

RegressRaised(exc, band) == [raised |-> exc, model |-> None, band |-> band]

NoBand == BandRaised("none", "none")

\* the RegressModel dataclass
RegressModel(family, method, date_col, fit, m, mode, quantiles, coverage, n_train, n_cal) ==
    [family |-> family, method |-> method, date_col |-> date_col,
     coefs |-> fit.beta, feature_names |-> <<"x">>,
     dof_resid |-> IMax(m - 1, 1), sigma2 |-> fit.sigma2,
     xtx_inv |-> fit.xtx_inv, hat_diag |-> fit.hat_diag,
     conformal_mode |-> mode, conformal_quantiles |-> quantiles,
     coverage |-> coverage, training_rows |-> n_train,
     calibration_rows |-> n_cal]

RegressBanded(family, method, date_col, fit, m, band) ==
    IF band.raised # "none" THEN RegressRaised(band.raised, band)
    ELSE [raised |-> "none",
          model |-> Some(RegressModel(family, method, date_col, fit, m, Some(band.mode),
                                      Some(band.qs), Some(band.coverage),
                                      band.training_rows, band.calibration_rows)),
          band |-> band]

RegressFitted(X, y, data, family, method, date_col, uncertainty, alpha_levels, fit, empty) ==
    IF fit.raised # "none" THEN RegressRaised(fit.raised, NoBand)
    ELSE IF IsNone(uncertainty)
    THEN [raised |-> "none",
          model |-> Some(RegressModel(family, method, date_col, fit, Len(y),
                                      None, None, None, Len(y), 0)),
          band |-> NoBand]
    ELSE RegressBanded(family, method, date_col, fit, Len(y),
             compute_conformal_band(X, y, fit.beta, fit.hat_diag, data,
                 IF Val(uncertainty) = "conformal"
                 THEN auto_select_conformal_mode(method, family, Len(y))
                 ELSE Val(uncertainty),
                 alpha_levels, date_col, empty))

\* RegressMatrices with a method name outside the supported set fitted by ols
RegressAnyMethod(X, y, data, family, method, date_col, uncertainty, alpha_levels, w, b, empty) ==
    RegressFitted(X, y, data, family, method, date_col, uncertainty, alpha_levels,
                  IF method \in Methods THEN FitMethod(X, y, method, w, b) ELSE fit_ols(X, y),
                  empty)

RegressMatrices(X, y, data, family, method, date_col, uncertainty, alpha_levels, w, b, empty) ==
    IF method \notin Methods THEN RegressRaised("ValueError", NoBand)
    ELSE RegressFitted(X, y, data, family, method, date_col, uncertainty, alpha_levels,
                       FitMethod(X, y, method, w, b), empty)

\* regress(formula="y ~ 0 + x", data, family=, method=, alpha=, date_col=,
\* uncertainty=, alpha_levels=): the exception raised or the model returned, with
\* the outcome of the calibration call. The parameter alpha is read nowhere in
\* the body.
regress(data, family, method, alpha, date_col, uncertainty, alpha_levels, w, b, empty) ==
    IF date_col # "None" /\ date_col \notin DataColumns
    THEN RegressRaised("ValueError", NoBand)
    ELSE RegressMatrices(build_X(data), build_y(data), data, family, method, date_col,
                         uncertainty, alpha_levels, w, b, empty)

\* alphas a for which int((1 - a) * 100) falls one short of 100 - 100 a in floats
TruncatedLabels == {34, 55, 56, 67, 68, 78, 79, 80, 81, 89, 90, 91, 92, 93}
BandLabel(a) == IF a \in TruncatedLabels THEN 100 - a - 1 ELSE 100 - a

NewDataArgs == {<<1, 0>>}

\* the columns lower_<l>, upper_<l> written for alpha a
BandColumns(yhat, q) ==
    [lower |-> [i \in 1..Len(yhat) |-> RSub(yhat[i], q)],
     upper |-> [i \in 1..Len(yhat) |-> RAdd(yhat[i], q)]]

\* the last alpha of alpha_levels that has a quantile and writes label l
LastWriter(qs, alpha_levels, l) ==
    alpha_levels[CHOOSE i \in 1..Len(alpha_levels) :
        /\ alpha_levels[i] \in DOMAIN qs /\ BandLabel(alpha_levels[i]) = l
        /\ \A j \in (i + 1)..Len(alpha_levels) :
              ~(alpha_levels[j] \in DOMAIN qs /\ BandLabel(alpha_levels[j]) = l)]

PredictTable(yhat, qs, alpha_levels) ==
    [prediction |-> yhat,
     bands |-> [l \in {BandLabel(a) : a \in SeqRange(alpha_levels) \cap DOMAIN qs} |->
                   BandColumns(yhat, qs[LastWriter(qs, alpha_levels, l)])]]

\* RegressModel.predict(new_data, alpha_levels); new_x is the x column of new_data
predict(model, new_x, alpha_levels) ==
    PredictTable([i \in 1..Len(new_x) |-> RMul(FromInt(new_x[i]), model.coefs)],
                 IF IsNone(model.conformal_quantiles) THEN <<>>
                 ELSE Val(model.conformal_quantiles),
                 alpha_levels)

-----------------------------------------------------------------------------
(* Actions, implementation A *)

\* retA carries, besides the call's outcome, the method and alpha arguments of a
\* regress call (alpha is None when the caller passes none)
NoCall == [op |-> "none", raised |-> "none", table |-> None, alpha_levels |-> <<>>,
           method |-> "none", alpha |-> None]
NoSel == [method |-> "none", family |-> "none", n |-> 0]

WeightSeqs(n) == [1..n -> HuberWeights]

\* a call of regress on the data at hand; modelA is the variable the caller
\* binds the result to, and stays unbound when regress raises
RegressA ==
    /\ retA = NoCall
    /\ \E family \in FamilyArgs, method \in MethodArgs, date_col \in DateColArgs,
          uncertainty \in UncertaintyArgs, alpha_levels \in AlphaTuples :
       \E w \in (IF method = "robust" THEN WeightSeqs(Len(rows)) ELSE {<<>>}),
          b \in (IF method = "quantile" THEN GradIterates ELSE {Zero}),
          empty \in (IF Len(rows) = 0 THEN {"nan", "IndexError"} ELSE {"nan"}),
          alpha \in (IF method \in {"ridge", "lasso"} THEN {None, Some(2)} ELSE {None}) :
          /\ LET r == regress(rows, family, method, alpha, date_col, uncertainty,
                              alpha_levels, w, b, empty)
             IN /\ modelA' = r.model
                /\ cal' = r.band
                /\ retA' = [op |-> "regress", raised |-> r.raised, table |-> None,
                            alpha_levels |-> alpha_levels, method |-> method,
                            alpha |-> alpha]
    /\ UNCHANGED <<rows, modelC, retC, varsSel, varsB, loop, sol>>

\* a call of model.predict on the fitted model
PredictA ==
    /\ ~IsNone(modelA)
    /\ \E new_x \in NewDataArgs, alpha_levels \in AlphaTuples :
          retA' = [op |-> "predict", raised |-> "none",
                   table |-> Some(predict(Val(modelA), new_x, alpha_levels)),
                   alpha_levels |-> alpha_levels, method |-> "none", alpha |-> None]
    /\ UNCHANGED <<rows, modelC, retC, modelA, cal, varsSel, varsB, loop, sol>>

\* the caller drops the model and the last result
DiscardA ==
    /\ retA # NoCall
    /\ modelA' = None
    /\ retA' = NoCall
    /\ cal' = NoBand
    /\ UNCHANGED <<rows, modelC, retC, varsSel, varsB, loop, sol>>

\* a call of the mode selector
SelectA ==
    /\ \E method \in Methods, family \in Families, n \in 0..MaxSelN :
          /\ selIn' = [method |-> method, family |-> family, n |-> n]
          /\ selOut' = auto_select_conformal_mode(method, family, n)
    /\ UNCHANGED <<rows, modelC, retC, varsA, varsB, loop, sol>>


-----------------------------------------------------------------------------
(* Implementation B: package conformal-regress, called as                   *)
(* regress("y ~ x", data, fit_intercept=False, ...), model.predict(None, alpha) *)

\* validate_data(min_samples=10)
MinSamples == 10

\* n rows with x = 1 and y = 0, but y = 1 in row p (no such row when p = 0);
\* the date column ascends or descends along the frame
OddRowAt(p, n, order) ==
    [i \in 1..n |-> [x |-> 1, y |-> IF i = p THEN 1 ELSE 0,
                     key |-> IF order = "asc" THEN i ELSE n + 1 - i]]
DatasetsB ==
    {OddRowAt(p, MinSamples, o) : p \in 0..MinSamples, o \in {"asc", "desc"}}
    \cup {OddRowAt(1, MinSamples - 1, "asc")}
    \cup {[i \in 1..MinSamples |-> [x |-> i % 2, y |-> i % 2, key |-> i]]}  \* y = x
    \cup {OddRowAt(4 * MinSamples, 4 * MinSamples, "asc")}

MethodArgsB == {"linear", "bogus"}
UncertaintyArgsB == {"conformal_split", "conformal_temporal", "conformal_cross",
                     "bootstrap", "none", "bogus"}
PredictAlphas == {5, 10}

\* RegressModel._validate_inputs: every failure raises ValueError
ValidInputs(data, method, uncertainty, date_col) ==
    /\ Len(data) >= MinSamples
    /\ \E i, j \in 1..Len(data) : data[i].y # data[j].y
    /\ method \in {"linear", "quantile", "robust", "lasso", "ridge"}
    /\ uncertainty \in {"conformal", "conformal_thinning", "conformal_split",
                        "conformal_temporal", "bootstrap", "none"}
    /\ (date_col = "None" \/ date_col \in DataColumns)

\* prepare_data: the frame sorted by date_col when one is given
prepare_data(data, date_col) ==
    IF date_col = "None" THEN data
    ELSE Take(data, ArgSortStable([i \in 1..Len(data) |-> data[i].key]))

\* LinearRegression._solve_qr without regularization on one column:
\* solve_triangular raises on the zero pivot of an all-zero column
solve_qr(sxx, sxy) ==
    IF sxx.n = 0 THEN [raised |-> "LinAlgError", coefficients_ |-> None]
    ELSE [raised |-> "none", coefficients_ |-> Some(RDiv(sxy, sxx))]

\* LinearRegression(fit_intercept=False).fit(X, y)
LinearRegression_fit(X, y) == solve_qr(Dot(X, X), Dot(X, y))

\* LinearRegression.predict(X)
LinearRegression_predict(coefficients, X) ==
    [i \in 1..Len(X) |-> RMul(X[i], coefficients)]

\* RegressModel._setup_conformal_prediction
conformal_method_of(uncertainty) ==
    CASE uncertainty = "conformal_thinning" -> Some("data_thinning")
      [] uncertainty = "conformal_split" -> Some("split")
      [] uncertainty = "conformal_temporal" -> Some("temporal")
      [] OTHER -> None

\* the RegressModel object after __init__ and fit()
FittedRegressModel(prepared, uncertainty, date_col, fit) ==
    IF fit.raised # "none" THEN [raised |-> fit.raised, model |-> None]
    ELSE [raised |-> "none",
          model |-> Some([uncertainty |-> uncertainty, date_col |-> date_col,
                          data_ |-> prepared, coefficients_ |-> Val(fit.coefficients_),
                          conformal_method |-> conformal_method_of(uncertainty),
                          conformal_alpha |-> 5, coverage_achieved |-> None,
                          temporal_conformal |-> uncertainty = "conformal_temporal"])]

FitPrepared(prepared, uncertainty, date_col) ==
    FittedRegressModel(prepared, uncertainty, date_col,
                       LinearRegression_fit(build_X(prepared), build_y(prepared)))

\* core.regress.regress: RegressModel(...) then model.fit()
regress_B(data, method, uncertainty, date_col) ==
    IF ~ValidInputs(data, method, uncertainty, date_col)
    THEN [raised |-> "ValueError", model |-> None]
    ELSE FitPrepared(prepare_data(data, date_col), uncertainty, date_col)

\* np.random.permutation(n): a function of the generator's state, here the
\* rotation of arange(n) by the seed plus the number of draws since seeding
Permutation(state, n) == [i \in 1..n |-> ((i - 1 + state.seed + state.draws) % n) + 1]

\* A float dictionary key: pct percent, off by ulps units in the last place.
\* The literals 0.05 and 0.1 are exact; 1 - 90/100 = 0.09999999999999998 and
\* 1 - 95/100 = 0.050000000000000044 are not.
FloatKey(pct) == [pct |-> pct, ulps |-> 0]
LevelAlpha(level) ==
    [pct |-> 100 - level, ulps |-> IF level = 90 THEN -2 ELSE IF level = 95 THEN 6 ELSE 0]

\* the conformal quantile of the scores at the corrected level (n_cal >= 1)
CorrectedQuantile(scores, a) == Quantile(scores, CorrectedLevel(Len(scores), a))

\* the results dict of split_conformal / temporal_conformal: bands for alpha and
\* for the common levels 0.1 and 0.05; fit_idx and cal_idx are the rows the
\* scoring model was fitted on and the rows that were scored
ConformalResults(method, scores, y_test_pred, alpha, fit_idx, cal_idx) ==
    [raised |-> "none", method |-> method,
     quantile |-> CorrectedQuantile(scores, alpha),
     bands |-> [k \in {FloatKey(a) : a \in {alpha, 10, 5}} |->
                  BandColumns(y_test_pred, CorrectedQuantile(scores, k.pct))],
     coverage_achieved |-> None,
     n_calibration |-> Len(scores), fit_idx |-> fit_idx, cal_idx |-> cal_idx]

ResultsRaised(exc, method) ==
    [raised |-> exc, method |-> method, quantile |-> NaN, bands |-> <<>>,
     coverage_achieved |-> None, n_calibration |-> 0, fit_idx |-> <<>>, cal_idx |-> <<>>]

SplitScored(X, y, X_test, alpha, train_idx, cal_idx, fit) ==
    IF fit.raised # "none" THEN ResultsRaised(fit.raised, "split")
    ELSE ConformalResults("split",
             AbsResid(Take(X, cal_idx), Take(y, cal_idx), Val(fit.coefficients_)),
             LinearRegression_predict(Val(fit.coefficients_), X_test),
             alpha, train_idx, cal_idx)

SplitAt(X, y, X_test, alpha, train_idx, cal_idx) ==
    SplitScored(X, y, X_test, alpha, train_idx, cal_idx,
                LinearRegression_fit(Take(X, train_idx), Take(y, train_idx)))

\* split_conformal(model, X_train, y_train, X_test, alpha); indices is the
\* value of np.random.permutation(n)
split_conformal(X, y, X_test, alpha, indices) ==
    SplitAt(X, y, X_test, alpha, SubSeq(indices, 1, Cut(Len(X))),
            SubSeq(indices, Cut(Len(X)) + 1, Len(X)))

\* window_size = min(min(max(50, n // 4), n // 2), n - 1)
WindowSize(n) == IMin(IMin(IMax(50, n \div 4), n \div 2), n - 1)

TemporalWindow(coefficients, X, y, X_test, alpha, cal_idx) ==
    ConformalResults("temporal",
        AbsResid(Take(X, cal_idx), Take(y, cal_idx), coefficients),
        LinearRegression_predict(coefficients, X_test),
        alpha, Arange(Len(X)), cal_idx)

\* temporal_conformal(model, X_train, y_train, X_test, alpha): the last
\* window_size rows are scored by model itself
temporal_conformal(coefficients, X, y, X_test, alpha) ==
    TemporalWindow(coefficients, X, y, X_test, alpha,
        [i \in 1..(Len(X) - IMax(0, Len(X) - WindowSize(Len(X)))) |->
            IMax(0, Len(X) - WindowSize(Len(X))) + i])

\* conformal_predict(model, X_train, y_train, X_test, method, alpha), with
\* random_state left at None, for the methods a fitted RegressModel can hold
conformal_predict(coefficients, X, y, X_test, method, alpha, state) ==
    CASE method = Some("split") ->
           split_conformal(X, y, X_test, alpha, Permutation(state, Len(X)))
      [] method = Some("temporal") -> temporal_conformal(coefficients, X, y, X_test, alpha)
      [] OTHER -> ResultsRaised("ValueError", "unknown")

\* RegressModel._add_conformal_bands: the columns lower_<level>, upper_<level>
\* for the levels whose key 1 - level/100 is in the results
BandsTable(point_predictions, results) ==
    [prediction |-> point_predictions,
     bands |-> [l \in {level \in {90, 95} : LevelAlpha(level) \in DOMAIN results.bands} |->
                  results.bands[LevelAlpha(l)]]]

PredictedB(model, alpha, point_predictions, results) ==
    IF results.raised # "none"
    THEN [raised |-> results.raised, table |-> None, results |-> results, model |-> model]
    ELSE [raised |-> "none", table |-> Some(BandsTable(point_predictions, results)),
          results |-> results,
          model |-> [model EXCEPT !.coverage_achieved = results.coverage_achieved,
                                  !.conformal_alpha = alpha]]

NoResults == ResultsRaised("none", "none")

\* RegressModel.predict(new_data=None, alpha): outcome and the object afterwards
\* (bands are added for the uncertainty tags that start with "conformal";
\* _add_bootstrap_bands only warns)
predict_B(model, alpha, state) ==
    IF model.uncertainty \in {"none", "bootstrap"}
    THEN [raised |-> "none",
          table |-> Some([prediction |-> LinearRegression_predict(model.coefficients_,
                                                                   build_X(model.data_)),
                          bands |-> <<>>]),
          results |-> NoResults, model |-> model]
    ELSE PredictedB(model, alpha,
             LinearRegression_predict(model.coefficients_, build_X(model.data_)),
             conformal_predict(model.coefficients_, build_X(model.data_),
                               build_y(model.data_), build_X(model.data_),
                               model.conformal_method, alpha, state))

-----------------------------------------------------------------------------
(* Actions, implementation B *)

\* retB carries, besides the call's outcome, the results dict of the
\* conformal_predict call it made, the generator state the call found and
\* the horizon a forecast was asked for; args is the (method, uncertainty,
\* date_col) a regress call was given
NoCallB == [op |-> "none", raised |-> "none", table |-> None, alpha |-> 0,
            results |-> NoResults, state |-> [seed |-> 0, draws |-> 0], horizon |-> 0,
            args |-> <<>>]

RegressB ==
    /\ retB.op = "none"
    /\ \E method \in MethodArgsB, uncertainty \in UncertaintyArgsB,
          date_col \in DateColArgs :
          LET r == regress_B(rows, method, uncertainty, date_col)
          IN /\ modelB' = r.model
             /\ retB' = [NoCallB EXCEPT !.op = "regress", !.raised = r.raised,
                                        !.args = <<method, uncertainty, date_col>>]
    /\ UNCHANGED <<rows, modelC, retC, varsA, varsSel, np_random, loop, sol>>

PredictB ==
    /\ ~IsNone(modelB)
    /\ np_random.draws < MaxDraws
    /\ \E alpha \in PredictAlphas :
          LET r == predict_B(Val(modelB), alpha, np_random)
          IN /\ modelB' = Some(r.model)
             /\ retB' = [op |-> "predict", raised |-> r.raised, table |-> r.table,
                         alpha |-> alpha, results |-> r.results, state |-> np_random,
                         horizon |-> 0, args |-> <<>>]
    /\ np_random' = IF Val(modelB).conformal_method = Some("split")
                    THEN [np_random EXCEPT !.draws = @ + 1]
                    ELSE np_random
    /\ UNCHANGED <<rows, modelC, retC, varsA, varsSel, loop, sol>>

\* the caller seeds the global generator: np.random.seed(seed)
SeedB ==
    /\ \E seed \in 0..MaxSeed :
          /\ np_random # [seed |-> seed, draws |-> 0]
          /\ np_random' = [seed |-> seed, draws |-> 0]
    /\ UNCHANGED <<rows, modelC, retC, varsA, varsSel, modelB, retB, loop, sol>>

\* RegressModel.forecast(horizon), no further argument: raises without a
\* date_col, and otherwise returns the frame with the columns prediction,
\* lower_95 and upper_95 and no row
ForecastB ==
    /\ ~IsNone(modelB)
    /\ \E horizon \in 1..MaxHorizon :
          retB' = [NoCallB EXCEPT
                     !.op = "forecast",
                     !.horizon = horizon,
                     !.raised = IF Val(modelB).date_col = "None" THEN "ValueError"
                                ELSE "none",
                     !.table = IF Val(modelB).date_col = "None" THEN None
                               ELSE Some([prediction |-> <<>>,
                                          bands |-> [l \in {95} |->
                                                       BandColumns(<<>>, Zero)]])]
    /\ UNCHANGED <<rows, modelC, retC, varsA, varsSel, modelB, np_random, loop, sol>>

DiscardB ==
    /\ retB.op # "none"
    /\ modelB' = None
    /\ retB' = NoCallB
    /\ UNCHANGED <<rows, modelC, retC, varsA, varsSel, np_random, loop, sol>>

-----------------------------------------------------------------------------
(* Iterative solvers, implementation A: the outer loops of fit_lasso,        *)
(* fit_huber and fit_quantile. The float arithmetic of a pass is left out:   *)
(* the coefficients after pass k are the token k, and the outcome of the     *)
(* convergence test of a pass is either one.                                 *)

\* the default max_iter of each solver
max_iter(solver) ==
    CASE solver = "lasso" -> LassoMaxIter
      [] solver = "robust" -> 100
      [] solver = "quantile" -> 2000

\* IterateSolver with the loop running one pass beyond max_iter
IterateOnePastCap ==
    /\ loop.pc = "loop"
    /\ \E met \in BOOLEAN :
          loop' = [loop EXCEPT
                     !.it = @ + 1,
                     !.met = met,
                     !.pc = IF met \/ loop.it + 1 > max_iter(loop.solver)
                            THEN "returned" ELSE "loop",
                     !.ret = IF met \/ loop.it + 1 > max_iter(loop.solver)
                             THEN Some([beta |-> loop.it + 1, sigma2 |-> loop.it + 1,
                                        xtx_inv |-> 0, hat_diag |-> 0])
                             ELSE None]
    /\ UNCHANGED <<rows, modelC, retC, varsA, varsSel, varsB, sol>>

\* a call of fit_lasso, fit_huber or fit_quantile enters its loop
StartSolver ==
    /\ loop.pc = "none"
    /\ \E solver \in {"lasso", "robust", "quantile"} :
          loop' = [loop EXCEPT !.solver = solver, !.pc = "loop"]
    /\ UNCHANGED <<rows, modelC, retC, varsA, varsSel, varsB, sol>>

\* one pass of `for it in range(max_iter)`: the body, then the convergence test
\* and its break; after the last pass the loop is exhausted. Either way the
\* function goes on to return (beta, sigma2, XtX_inv, hat_diag), beta being the
\* coefficients of the last pass.
IterateSolver ==
    /\ loop.pc = "loop"
    /\ \E met \in BOOLEAN :
          loop' = [loop EXCEPT
                     !.it = @ + 1,
                     !.met = met,
                     !.pc = IF met \/ loop.it + 1 >= max_iter(loop.solver)
                            THEN "returned" ELSE "loop",
                     !.ret = IF met \/ loop.it + 1 >= max_iter(loop.solver)
                             THEN Some([beta |-> loop.it + 1, sigma2 |-> loop.it + 1,
                                        xtx_inv |-> 0, hat_diag |-> 0])
                             ELSE None]
    /\ UNCHANGED <<rows, modelC, retC, varsA, varsSel, varsB, sol>>

-----------------------------------------------------------------------------
(* Solvers of implementation A called directly on (X, y): X has the rows of  *)
(* the data and n columns (none, or the column x), y may be one element short *)

\* The exception numpy raises on the shapes X: (m, n), y: (len_y,), or "none".
\* ols and Huber start with np.linalg.lstsq, which rejects len_y # m; ridge
\* forms X.T @ y; lasso and quantile form y - X @ beta, which broadcasts a
\* one-element y; lasso and Huber take np.linalg.norm(..., ord=np.inf) of the
\* coefficient change, which raises on an empty array.
ShapeError(solver, m, n, len_y) ==
    IF solver \in {"ols", "robust"} /\ len_y # m THEN "LinAlgError"
    ELSE IF solver = "ridge" /\ len_y # m THEN "ValueError"
    ELSE IF solver \in {"lasso", "quantile"} /\ len_y # m /\ len_y # 1 THEN "ValueError"
    ELSE IF solver \in {"lasso", "robust"} /\ n = 0 THEN "ValueError"
    ELSE "none"

\* fit_ols(X, y), fit_ridge(X, y, alpha), fit_lasso(X, y, alpha), fit_huber(X, y)
\* or fit_quantile(X, y); coefs is the returned beta as a sequence, empty when X
\* has no column, and sweeps the number of passes of fit_lasso's outer loop
CallSolver ==
    /\ \E solver \in Methods, n \in {0, 1}, short \in {0, 1}, alpha \in {0, 1, 2} :
          /\ short <= Len(rows)
          /\ (alpha = 0 \/ solver \in {"ridge", "lasso"})
          /\ \E w \in (IF solver = "robust" THEN WeightSeqs(Len(rows)) ELSE {<<>>}),
                b \in (IF solver = "quantile" THEN GradIterates ELSE {Zero}) :
                LET exc == ShapeError(solver, Len(rows), n, Len(rows) - short)
                    y == IF short = 0 THEN build_y(rows)
                         ELSE [i \in 1..Len(rows) |-> build_y(rows)[1]]
                    fit == IF solver = "ridge"
                           THEN fit_ridge(build_X(rows), y, FromInt(alpha))
                           ELSE IF solver = "lasso"
                           THEN fit_lasso(build_X(rows), y, FromInt(alpha))
                           ELSE FitMethod(build_X(rows), y, solver, w, b)
                IN sol' = [solver |-> solver, n |-> n, len_y |-> Len(rows) - short,
                           alpha |-> alpha,
                           raised |-> IF exc # "none" THEN exc
                                      ELSE IF n = 0 THEN "none" ELSE fit.raised,
                           coefs |-> IF exc # "none" THEN None
                                     ELSE IF n = 0 THEN Some(<<>>)
                                     ELSE IF fit.raised # "none" THEN None
                                     ELSE Some(<<fit.beta>>),
                           sweeps |-> IF solver = "lasso" /\ exc = "none" /\ n = 1
                                      THEN LassoLoop(build_X(rows), y, FromInt(alpha),
                                                     Zero, Zero, 0).sweeps
                                      ELSE 0]
    /\ UNCHANGED <<rows, modelC, retC, varsA, varsSel, varsB, loop>>

-----------------------------------------------------------------------------
(* Implementation C: core.model.ConformalModel over a LinearModel and a      *)
(* conformal method that is None, a DataThinningConformal or a               *)
(* DataSplittingConformal. A frame is known by two facts: closed, the        *)
(* outcome of _is_convolution_closed on the residuals of a LinearModel       *)
(* fitted on it, and dated, whether its index is a DatetimeIndex. The fields *)
(* base_data and cal_data name the frame the base model's coefficients and   *)
(* the method's residual quantiles were last computed from; retC names the   *)
(* frames a returned table takes its coefficients and its intervals from.    *)

\* ConformalModel(base_model, conformal_method, date_col)
NewC ==
    /\ \E method \in {"None", "thinning", "splitting"}, date_col \in {"None", "date"} :
          modelC' = [method |-> method, date_col |-> date_col, fitted |-> FALSE,
                     base_data |-> None, last_date |-> FALSE,
                     calibrated |-> FALSE, cal_data |-> None]
    /\ retC' = [op |-> "new", raised |-> "none", coefficients_of |-> None,
                intervals_of |-> None]
    /\ UNCHANGED <<rows, varsA, varsSel, varsB, loop, sol>>

\* ConformalModel.fit(formula, data): the base model is fitted first, then the
\* method is calibrated (DataThinningConformal.calibrate raises ValueError on
\* residuals that are not convolution-closed), then fitted is set
FitC ==
    /\ \E data \in [closed : BOOLEAN, dated : BOOLEAN] :
          IF modelC.method = "thinning" /\ ~data.closed
          THEN /\ modelC' = [modelC EXCEPT !.base_data = Some(data),
                                           !.last_date = @ \/ data.dated]
               /\ retC' = [op |-> "fit", raised |-> "ValueError",
                           coefficients_of |-> None, intervals_of |-> None]
          ELSE /\ modelC' = [modelC EXCEPT
                                !.base_data = Some(data),
                                !.last_date = @ \/ data.dated,
                                !.calibrated = @ \/ modelC.method # "None",
                                !.cal_data = IF modelC.method = "None" THEN @
                                             ELSE Some(data),
                                !.fitted = TRUE]
               /\ retC' = [op |-> "fit", raised |-> "none",
                           coefficients_of |-> None, intervals_of |-> None]
    /\ UNCHANGED <<rows, varsA, varsSel, varsB, loop, sol>>

\* ConformalModel.predict(new_data) with the default confidence levels 0.9 and
\* 0.95. DataThinningConformal.predict_intervals looks 1 - level up among the
\* keys 0.1, 0.05, 0.01, finds neither float, and returns no interval, so
\* reading intervals['lower_9'] raises KeyError.
PredictC ==
    /\ retC' = IF ~modelC.fitted
               THEN [op |-> "predict", raised |-> "ValueError",
                     coefficients_of |-> None, intervals_of |-> None]
               ELSE IF modelC.method = "thinning"
               THEN [op |-> "predict", raised |-> "KeyError",
                     coefficients_of |-> None, intervals_of |-> None]
               ELSE [op |-> "predict", raised |-> "none",
                     coefficients_of |-> modelC.base_data,
                     intervals_of |-> modelC.cal_data]
    /\ retC' # retC
    /\ UNCHANGED <<rows, varsA, varsSel, varsB, loop, sol, modelC>>

\* ConformalModel.forecast(horizon): raises without a date_col, before a fit,
\* and (TypeError, None + Timedelta) when no fitted frame had a DatetimeIndex;
\* otherwise it is predict on the frame of future dates
ForecastC ==
    /\ retC' = IF modelC.date_col = "None" \/ ~modelC.fitted
               THEN [op |-> "forecast", raised |-> "ValueError",
                     coefficients_of |-> None, intervals_of |-> None]
               ELSE IF ~modelC.last_date
               THEN [op |-> "forecast", raised |-> "TypeError",
                     coefficients_of |-> None, intervals_of |-> None]
               ELSE IF modelC.method = "thinning"
               THEN [op |-> "forecast", raised |-> "KeyError",
                     coefficients_of |-> None, intervals_of |-> None]
               ELSE [op |-> "forecast", raised |-> "none",
                     coefficients_of |-> modelC.base_data,
                     intervals_of |-> modelC.cal_data]
    /\ retC' # retC
    /\ UNCHANGED <<rows, varsA, varsSel, varsB, loop, sol, modelC>>

-----------------------------------------------------------------------------
(* Specifications *)

\* nothing has been called yet
Idle ==
    /\ modelA = None
    /\ retA = NoCall
    /\ cal = NoBand
    /\ selIn = NoSel
    /\ selOut = "none"
    /\ modelB = None
    /\ retB = NoCallB
    /\ np_random = [seed |-> 0, draws |-> 0]
    /\ loop = [solver |-> "none", pc |-> "none", it |-> 0, met |-> FALSE, ret |-> None]
    /\ sol = [solver |-> "none", n |-> 1, len_y |-> 0, alpha |-> 0, raised |-> "none",
              coefs |-> None, sweeps |-> 0]
    /\ modelC = [method |-> "None", date_col |-> "None", fitted |-> FALSE,
                 base_data |-> None, last_date |-> FALSE,
                 calibrated |-> FALSE, cal_data |-> None]
    /\ retC = [op |-> "none", raised |-> "none", coefficients_of |-> None,
               intervals_of |-> None]

Init == rows \in Datasets /\ Idle

Next == RegressA \/ PredictA \/ DiscardA

Spec == Init /\ [][Next]_vars

InitSelect == rows = <<>> /\ Idle

NextSelect == SelectA

SpecSelect == InitSelect /\ [][NextSelect]_vars

InitB == rows \in DatasetsB /\ Idle

NextB == RegressB \/ PredictB \/ ForecastB \/ SeedB \/ DiscardB

SpecB == InitB /\ [][NextB]_vars

SpecSolve == Init /\ [][CallSolver]_vars

NextIter == StartSolver \/ IterateSolver

\* a solver call that has started keeps running until it returns
SpecIter == InitSelect /\ [][NextIter]_vars /\ WF_vars(NextIter)

SpecC == InitSelect /\ [][NewC \/ FitC \/ PredictC \/ ForecastC]_vars

-----------------------------------------------------------------------------
(* Claims on implementation A (module conformal_regress: api, conformal, models) *)

HoldoutModes == {"conformal_split", "conformal_cross", "conformal_temporal"}

\* the last regress call ran a calibration whose score pool was computed
PoolComputed == ~IsNone(cal.pool)

\* C1: in split, cross and temporal calibration, for every requested alpha and
\* every score pool of size n_cal >= 1, q_alpha is the empirical quantile of
\* the pool at level min(1, ceil((n_cal + 1)(1 - alpha)) / n_cal).
C1_CorrectedQuantileLevel ==
    (cal.raised = "none" /\ cal.mode \in HoldoutModes /\ PoolComputed
       /\ Len(Val(cal.pool)) >= 1)
    => \A a \in DOMAIN cal.qs :
          cal.qs[a] = Quantile(Val(cal.pool), CorrectedLevel(Len(Val(cal.pool)), a))

\* a two-score pool whose naive and corrected quantiles differ
C1_Witness ==
    /\ cal.raised = "none" /\ cal.mode = "conformal_cross" /\ PoolComputed
    /\ Len(Val(cal.pool)) = 2
    /\ \E a \in DOMAIN cal.qs :
          cal.qs[a] # Quantile(Val(cal.pool), CorrectedLevel(2, a))

C5_AutoSelector ==
    selIn.method # "none"
    => /\ selOut = (IF selIn.n < 100 THEN "conformal_cross"
                    ELSE IF selIn.method = "ols" /\ selIn.family = "gaussian"
                         THEN "conformal_thinning"
                    ELSE "conformal_split")
       /\ selOut # "conformal_temporal"

\* all three outcomes are reached around the threshold
C5_Witness ==
    /\ selIn.method = "ols" /\ selIn.family = "gaussian"
    /\ selIn.n = 100 /\ selOut = "conformal_thinning"

\* C6: for every row of a predict table and every alpha configured at fit, the
\* table holds lower = prediction - q_alpha and upper = prediction + q_alpha,
\* prediction being the row's point prediction new_X * beta.
C6_BandsForConfiguredAlphas ==
    (retA.op = "predict" /\ ~IsNone(Val(modelA).conformal_quantiles))
    => \A a \in DOMAIN Val(Val(modelA).conformal_quantiles) :
          /\ BandLabel(a) \in DOMAIN Val(retA.table).bands
          /\ \A i \in 1..Len(Val(retA.table).prediction) :
                /\ Val(retA.table).bands[BandLabel(a)].lower[i]
                     = RSub(Val(retA.table).prediction[i],
                            Val(Val(modelA).conformal_quantiles)[a])
                /\ Val(retA.table).bands[BandLabel(a)].upper[i]
                     = RAdd(Val(retA.table).prediction[i],
                            Val(Val(modelA).conformal_quantiles)[a])

\* a predict call on a calibrated model whose table has no band at all
C6_Witness ==
    /\ retA.op = "predict" /\ ~IsNone(Val(modelA).conformal_quantiles)
    /\ DOMAIN Val(retA.table).bands = {}

\* C8: whenever the calibration score pool is empty the calibration call fails
\* with a dedicated calibration-sample error, and returns no quantile.
C8_EmptyPoolRejected ==
    (PoolComputed /\ Val(cal.pool) = <<>>) => cal.raised = "CalibrationSampleError"

\* an empty pool was handed to np.quantile and NaN half-widths were returned
C8_Witness ==
    /\ PoolComputed /\ Val(cal.pool) = <<>> /\ cal.raised = "none"
    /\ \E a \in DOMAIN cal.qs : IsNaN(cal.qs[a])

\* C9: thinning calibration is rejected for models fitted by lasso, quantile or
\* Huber regression; it produces half-widths only for OLS and ridge fits.
C9_ThinningNeedsLeverage ==
    (~IsNone(modelA) /\ Val(modelA).conformal_mode = Some("conformal_thinning"))
    => Val(modelA).method \in {"ols", "ridge"}

\* a lasso fit carrying thinning half-widths
C9_Witness ==
    /\ ~IsNone(modelA) /\ Val(modelA).method = "lasso" /\ Len(rows) = 2
    /\ Val(modelA).conformal_mode = Some("conformal_thinning")
    /\ \E a \in DOMAIN Val(Val(modelA).conformal_quantiles) :
          RLt(Zero, Val(Val(modelA).conformal_quantiles)[a])

\* C10: if the calibration step of a fit fails, the fit still returns a fitted
\* model that serves point predictions, with no uncertainty bands attached.
C10_CalibrationFailureDegrades ==
    cal.raised # "none"
    => /\ retA.raised = "none"
       /\ ~IsNone(modelA)
       /\ IsNone(Val(modelA).conformal_quantiles)

\* the calibration raised and regress returned no model
C10_Witness ==
    /\ Len(rows) = 2 /\ retA.op = "regress" /\ cal.raised = "ValueError"
    /\ retA.raised = "ValueError" /\ IsNone(modelA)

\* C11: in split, cross and temporal calibration every sub-model refit uses the
\* same estimator and hyperparameters as the model being calibrated, fitted on
\* the training subset only: the scores of the calibration rows are their
\* absolute residuals under a fit of the model's own method to the training rows
\* (cal_idx being the last fold in cross mode, its scores end the pool).
C11_RefitSameEstimator ==
    (cal.raised = "none" /\ cal.mode \in HoldoutModes /\ ~IsNone(modelA))
    => \E w \in WeightSeqs(Len(cal.train_idx)), b \in GradIterates :
          SubSeq(Val(cal.pool), Len(Val(cal.pool)) - Len(cal.cal_idx) + 1,
                 Len(Val(cal.pool)))
            = AbsResid(Take(build_X(rows), cal.cal_idx), Take(build_y(rows), cal.cal_idx),
                       FitMethod(Take(build_X(rows), cal.train_idx),
                                 Take(build_y(rows), cal.train_idx),
                                 Val(modelA).method, w, b).beta)

\* a ridge model calibrated in split mode whose calibration score is the
\* residual under a least-squares refit, not under a ridge refit
C11_Witness ==
    /\ cal.raised = "none" /\ cal.mode = "conformal_split" /\ ~IsNone(modelA)
    /\ Val(modelA).method = "ridge" /\ Len(cal.train_idx) = 1 /\ Len(cal.cal_idx) = 1
    /\ Val(cal.pool)
         = AbsResid(Take(build_X(rows), cal.cal_idx), Take(build_y(rows), cal.cal_idx),
                    lstsq(Take(build_X(rows), cal.train_idx),
                          Take(build_y(rows), cal.train_idx)))
    /\ Val(cal.pool)
         # AbsResid(Take(build_X(rows), cal.cal_idx), Take(build_y(rows), cal.cal_idx),
                    fit_ridge(Take(build_X(rows), cal.train_idx),
                              Take(build_y(rows), cal.train_idx), KwargsAlpha).beta)

\* C14: every solver (OLS, ridge, lasso, Huber, quantile) fails with an explicit
\* error, returning no coefficients, when X has zero columns or when the length
\* of y differs from the number of rows of X.
C14_ShapeErrorsExplicit ==
    (sol.solver # "none" /\ (sol.n = 0 \/ sol.len_y # Len(rows)))
    => sol.raised # "none" /\ IsNone(sol.coefs)

\* OLS on a two-row X without columns returned an empty coefficient vector
C14_Witness ==
    /\ sol.solver = "ols" /\ sol.n = 0 /\ Len(rows) = 2 /\ sol.len_y = 2
    /\ sol.raised = "none" /\ sol.coefs = Some(<<>>)

\* C15: for every (X, y) on which OLS returns coefficients, ridge with
\* lambda = 0 also returns coefficients and they equal the OLS coefficients.
C15_RidgeZeroIsOls ==
    (sol.solver = "ridge" /\ sol.alpha = 0 /\ sol.n = 1 /\ sol.len_y = Len(rows)
       /\ fit_ols(build_X(rows), build_y(rows)).raised = "none")
    => /\ sol.raised = "none"
       /\ sol.coefs = Some(<<fit_ols(build_X(rows), build_y(rows)).beta>>)

\* C15 on the inputs whose X'X is invertible: ridge with lambda = 0 returns the
\* OLS coefficients.
C15_FullRank ==
    (sol.solver = "ridge" /\ sol.alpha = 0 /\ sol.n = 1 /\ sol.len_y = Len(rows)
       /\ Dot(build_X(rows), build_X(rows)).n # 0)
    => /\ sol.raised = "none"
       /\ sol.coefs = Some(<<fit_ols(build_X(rows), build_y(rows)).beta>>)

\* ridge with lambda = 0 raised on a two-row all-zero column, which OLS solves
C15_Witness ==
    /\ sol.solver = "ridge" /\ sol.alpha = 0 /\ sol.n = 1 /\ sol.len_y = 2
    /\ Len(rows) = 2 /\ Dot(build_X(rows), build_X(rows)).n = 0
    /\ fit_ols(build_X(rows), build_y(rows)).raised = "none"
    /\ sol.raised = "LinAlgError"

\* C16: in every predict table the band columns of an alpha are named lower_P
\* and upper_P, P being the coverage percentage 100 (1 - alpha).
C16_CoverageLabels ==
    (retA.op = "predict" /\ ~IsNone(Val(modelA).conformal_quantiles))
    => DOMAIN Val(retA.table).bands
         = {100 - a : a \in SeqRange(retA.alpha_levels)
                             \cap DOMAIN Val(Val(modelA).conformal_quantiles)}

\* the band of alpha = 0.55 was written under the label 44
C16_Witness ==
    /\ retA.op = "predict" /\ retA.alpha_levels = <<55>>
    /\ ~IsNone(Val(modelA).conformal_quantiles)
    /\ 55 \in DOMAIN Val(Val(modelA).conformal_quantiles)
    /\ DOMAIN Val(retA.table).bands = {44}

\* C21: regress called with a method name outside the supported set raises
\* ValueError and returns no model, before any calibration is attempted.
C21_UnknownMethodRejected ==
    (retA.op = "regress" /\ retA.method \notin Methods)
    => retA.raised = "ValueError" /\ IsNone(modelA) /\ cal = NoBand

\* regress was called with the method "bogus" on two rows and raised
C21_Witness ==
    /\ retA.op = "regress" /\ retA.method = "bogus" /\ Len(rows) = MaxRows
    /\ retA.raised = "ValueError" /\ IsNone(modelA)

C23_SplitPartition ==
    (cal.mode = "conformal_split" /\ PoolComputed)
    => /\ SeqRange(cal.train_idx) \cap SeqRange(cal.cal_idx) = {}
       /\ SeqRange(cal.train_idx) \cup SeqRange(cal.cal_idx) = 1..Len(rows)
       /\ Len(cal.train_idx) + Len(cal.cal_idx) = Len(rows)
       /\ 10 * Len(cal.train_idx) <= 8 * Len(rows)
       /\ 8 * Len(rows) < 10 * (Len(cal.train_idx) + 1)
       /\ Val(cal.pool)
            = AbsResid(Take(build_X(rows), cal.cal_idx), Take(build_y(rows), cal.cal_idx),
                       lstsq(Take(build_X(rows), cal.train_idx),
                             Take(build_y(rows), cal.train_idx)))

\* a split calibration on six rows: four training rows, two scores, one of
\* them not zero
C23_Witness ==
    /\ cal.mode = "conformal_split" /\ cal.raised = "none" /\ Len(rows) = 6
    /\ Len(cal.train_idx) = 4 /\ Len(Val(cal.pool)) = 2
    /\ \E i \in 1..2 : Val(cal.pool)[i] # Zero

C26_LassoDofCountsNonZero ==
    (~IsNone(modelA) /\ Val(modelA).method = "lasso")
    => /\ Val(modelA).dof_resid
            = IMax(Len(rows) - (IF Val(modelA).coefs.n = 0 THEN 0 ELSE 1), 1)
       /\ Val(modelA).sigma2
            = RDiv(SumSquares(Residuals(build_X(rows), build_y(rows), Val(modelA).coefs)),
                   FromInt(IMax(Len(rows) - (IF Val(modelA).coefs.n = 0 THEN 0 ELSE 1), 1)))

\* a lasso fit on six rows shrank the only coefficient to zero: sigma2 is the
\* residual sum of squares over 6, and the model reports 5 residual degrees of
\* freedom
C26_Witness ==
    /\ ~IsNone(modelA) /\ Val(modelA).method = "lasso" /\ Len(rows) = 6
    /\ Val(modelA).coefs = Zero
    /\ Val(modelA).sigma2 = R(1, 6)
    /\ Val(modelA).dof_resid = 5

C28_PenaltyIsCallersAlpha ==
    (retA.op = "regress" /\ retA.raised = "none" /\ retA.method \in {"ridge", "lasso"})
    => Val(modelA).coefs
         = IF retA.method = "ridge"
           THEN fit_ridge(build_X(rows), build_y(rows),
                          IF IsNone(retA.alpha) THEN One ELSE FromInt(Val(retA.alpha))).beta
           ELSE fit_lasso(build_X(rows), build_y(rows),
                          IF IsNone(retA.alpha) THEN One ELSE FromInt(Val(retA.alpha))).beta

\* a ridge fit with alpha = 2 on x = (1, 1), y = (1, 1) returned the coefficient
\* 2/3 of the penalty 1, not the 1/2 of the penalty 2
C28_Witness ==
    /\ retA.op = "regress" /\ retA.raised = "none" /\ retA.method = "ridge"
    /\ retA.alpha = Some(2) /\ Len(rows) = 2
    /\ Dot(build_X(rows), build_X(rows)) = FromInt(2)
    /\ Dot(build_X(rows), build_y(rows)) = FromInt(2)
    /\ Val(modelA).coefs = R(2, 3)

\* C30: for every calibration mode and every row count n, the bookkeeping
\* counts of a fitted model are non-negative and satisfy training_rows +
\* calibration_rows = n: thinning reports (n, 0), split and temporal report
\* (floor(0.8 n), n - floor(0.8 n)), cross reports (0, n); a model fitted
\* without uncertainty reports (n, 0) and has no mode, no quantiles and no
\* coverage.
C30_BookkeepingCounts ==
    ~IsNone(modelA)
    => LET model == Val(modelA)
           n == Len(rows)
       IN /\ model.training_rows >= 0 /\ model.calibration_rows >= 0
          /\ model.training_rows + model.calibration_rows = n
          /\ CASE model.conformal_mode = Some("conformal_thinning") ->
                    model.training_rows = n /\ model.calibration_rows = 0
               [] model.conformal_mode \in {Some("conformal_split"),
                                            Some("conformal_temporal")} ->
                    /\ 10 * model.training_rows <= 8 * n
                    /\ 8 * n < 10 * (model.training_rows + 1)
               [] model.conformal_mode = Some("conformal_cross") ->
                    model.training_rows = 0 /\ model.calibration_rows = n
               [] OTHER ->
                    /\ IsNone(model.conformal_mode)
                    /\ model.training_rows = n /\ model.calibration_rows = 0
                    /\ IsNone(model.conformal_quantiles) /\ IsNone(model.coverage)

\* a model calibrated on five rows by the temporal mode reports four training
\* rows and one calibration row
C30_Witness ==
    /\ ~IsNone(modelA) /\ Len(rows) = 5
    /\ Val(modelA).conformal_mode = Some("conformal_temporal")
    /\ Val(modelA).training_rows = 4 /\ Val(modelA).calibration_rows = 1

-----------------------------------------------------------------------------
(* Claims on implementation B (package conformal-regress) *)

\* the last call was a predict that ran the named conformal method
RanMethod(method) ==
    retB.op = "predict" /\ retB.raised = "none" /\ retB.results.method = method

\* C3: in temporal calibration no row used to compute calibration scores has an
\* ordering-key value smaller than that of any row used to fit the calibration
\* model, and no calibration row is among the rows that model was fitted on.
C3_TemporalNoLookAhead ==
    RanMethod("temporal")
    => /\ \A c \in SeqRange(retB.results.cal_idx), f \in SeqRange(retB.results.fit_idx) :
             Val(modelB).data_[c].key >= Val(modelB).data_[f].key
       /\ SeqRange(retB.results.cal_idx) \cap SeqRange(retB.results.fit_idx) = {}

\* a temporal calibration on a frame with a date column, every scored row
\* being one of the rows the scoring model was fitted on
C3_Witness ==
    /\ RanMethod("temporal") /\ Val(modelB).date_col = "date"
    /\ retB.results.cal_idx # <<>>
    /\ SeqRange(retB.results.cal_idx) \subseteq SeqRange(retB.results.fit_idx)

\* C4: split mode with a fixed seed produces identical q_alpha across repeated
\* runs on identical input, whatever calls ran in between: every split run's
\* q_alpha is the one of a run made right after the seed was set.
C4_SplitDeterminism ==
    RanMethod("split")
    => retB.results.quantile
         = split_conformal(build_X(Val(modelB).data_), build_y(Val(modelB).data_),
                           build_X(Val(modelB).data_), retB.alpha,
                           Permutation([retB.state EXCEPT !.draws = 0],
                                       Len(Val(modelB).data_))).quantile

\* a second split run since the seed was set, with a different q_alpha
C4_Witness ==
    /\ RanMethod("split") /\ retB.state.draws = 1
    /\ retB.results.quantile
         # split_conformal(build_X(Val(modelB).data_), build_y(Val(modelB).data_),
                           build_X(Val(modelB).data_), retB.alpha,
                           Permutation([retB.state EXCEPT !.draws = 0],
                                       Len(Val(modelB).data_))).quantile

\* C7: predict on a fitted model leaves every field of the model unchanged.
C7_PredictLeavesModelUnchanged == [][PredictB => modelB' = modelB]_vars

\* a predict call has stored its alpha on the model
C7_Witness ==
    /\ retB.op = "predict" /\ retB.raised = "none"
    /\ Val(modelB).conformal_alpha = 10

\* C17: forecast(horizon) on an intercept-only model returns exactly horizon
\* rows, each predicting the intercept; on a model with any other feature it
\* raises unless the caller supplies future feature rows. The models here have
\* the feature x and forecast is given no future rows, so every forecast raises.
C17_ForecastNeedsFutureRows ==
    retB.op = "forecast" => retB.raised # "none" /\ IsNone(retB.table)

\* a forecast on a model with the feature x and a date column returned a table
\* without raising, and the table has no row for any step of the horizon
C17_Witness ==
    /\ retB.op = "forecast" /\ retB.horizon = 2 /\ retB.raised = "none"
    /\ Val(modelB).date_col = "date"
    /\ Len(Val(retB.table).prediction) = 0

C19_CalibrationLeavesGlobalGenerator == [][PredictB => np_random' = np_random]_vars

\* a split calibration partitioned the rows by the global generator seeded
\* with 1 and left the generator one draw further on
C19_Witness ==
    /\ RanMethod("split") /\ retB.state = [seed |-> 1, draws |-> 0]
    /\ np_random = [seed |-> 1, draws |-> 1]
    /\ retB.results.cal_idx
         = SubSeq(Permutation(retB.state, Len(Val(modelB).data_)),
                  Cut(Len(Val(modelB).data_)) + 1, Len(Val(modelB).data_))

\* C20: requesting temporal calibration without an ordering key (no key given,
\* or a key that is not a column of the data) always ends in an error: no
\* model set up for temporal calibration lacks a key column, and no temporal
\* calibration runs on such a model.
C20_TemporalNeedsOrderingKey ==
    /\ (~IsNone(modelB) /\ Val(modelB).conformal_method = Some("temporal"))
       => Val(modelB).date_col = "date"
    /\ RanMethod("temporal") => Val(modelB).date_col = "date"

\* a temporal calibration ran on a model fitted without a date column and
\* scored the last rows of the frame in their incoming order
C20_Witness ==
    /\ RanMethod("temporal") /\ Val(modelB).date_col = "None"
    /\ retB.results.cal_idx # <<>>
    /\ \A j \in 1..Len(retB.results.cal_idx) :
          retB.results.cal_idx[j]
            = Len(Val(modelB).data_) - Len(retB.results.cal_idx) + j

\* C25: each of the four mode tags thinning, split, cross and temporal can be
\* forced by the caller and runs its own calibration procedure, and any other
\* tag is rejected with an error without producing quantiles. Stated on regress
\* calls whose other arguments are valid and whose fit succeeds, for the tags
\* the caller passes here: split, cross and temporal are accepted and set up
\* their own procedure, "none" asks for no calibration, and every other tag
\* raises and leaves no model.
C25_ModeTagsForcedOrRejected ==
    (/\ retB.op = "regress"
     /\ ValidInputs(rows, retB.args[1], "none", retB.args[3])
     /\ FitPrepared(prepare_data(rows, retB.args[3]), "none", retB.args[3]).raised = "none")
    => CASE retB.args[2] = "conformal_split" ->
              retB.raised = "none" /\ Val(modelB).conformal_method = Some("split")
         [] retB.args[2] = "conformal_cross" ->
              retB.raised = "none" /\ Val(modelB).conformal_method = Some("cross")
         [] retB.args[2] = "conformal_temporal" ->
              retB.raised = "none" /\ Val(modelB).conformal_method = Some("temporal")
         [] retB.args[2] = "none" -> retB.raised = "none"
         [] OTHER -> retB.raised # "none" /\ IsNone(modelB)

\* regress, given valid data and the tag conformal_cross, raised ValueError and
\* returned no model
C25_Witness ==
    /\ retB.op = "regress" /\ retB.args = <<"linear", "conformal_cross", "date">>
    /\ ValidInputs(rows, "linear", "none", "date")
    /\ retB.raised = "ValueError" /\ IsNone(modelB)

-----------------------------------------------------------------------------
(* Claims on the iterative solvers (module conformal_regress.models) *)

\* C12: each iterative solver (lasso, Huber, quantile) terminates on every
\* input after at most its iteration cap of outer iterations, whether or not
\* the convergence test is ever met.
C12_SolverTerminatesWithinCap ==
    /\ [](loop.pc # "none" => loop.it <= max_iter(loop.solver))
    /\ [](loop.pc = "loop" => <>(loop.pc = "returned"))

\* a quantile fit that returned after max_iter passes, none of which converged
C12_Witness ==
    /\ loop.solver = "quantile" /\ loop.pc = "returned"
    /\ loop.it = max_iter("quantile") /\ ~loop.met

\* C13: when an iterative solver reaches its iteration cap without meeting the
\* tolerance, it returns its current coefficients without raising, and the
\* returned result is marked as unconverged.
C13_CappedFitMarkedUnconverged ==
    (loop.pc = "returned" /\ loop.it = max_iter(loop.solver) /\ ~loop.met)
    => /\ Val(loop.ret).beta = loop.it
       /\ "converged" \in DOMAIN Val(loop.ret)
       /\ Val(loop.ret).converged = FALSE

\* a lasso fit that ran out of passes and returned the plain 4-tuple
C13_Witness ==
    /\ loop.solver = "lasso" /\ loop.pc = "returned"
    /\ loop.it = LassoMaxIter /\ ~loop.met
    /\ DOMAIN Val(loop.ret) = {"beta", "sigma2", "xtx_inv", "hat_diag"}

-----------------------------------------------------------------------------
(* Claims on implementation C (class conformal_regress.core.model.ConformalModel) *)

\* C29: after any sequence of fit, predict and forecast calls on a
\* ConformalModel (fits whose calibration raises included), predict and
\* forecast raise unless some fit has completed, and whenever fitted is true
\* the conformal method (if any) is calibrated on the same data the base model
\* was last fitted on, so that no returned table combines coefficients from
\* one frame with intervals from another.
C29_CalibratedOnFittedData ==
    /\ (retC.op \in {"predict", "forecast"} /\ retC.raised = "none") => modelC.fitted
    /\ (modelC.fitted /\ modelC.method # "None")
       => modelC.calibrated /\ modelC.cal_data = modelC.base_data
    /\ (retC.raised = "none" /\ ~IsNone(retC.intervals_of))
       => retC.intervals_of = retC.coefficients_of

\* a fit on a second frame raised in the calibration of the thinning method:
\* the model is still fitted, its base model holds the coefficients of the
\* second frame and its method the quantiles of the first
C29_Witness ==
    /\ retC.op = "fit" /\ retC.raised = "ValueError"
    /\ modelC.fitted /\ modelC.method = "thinning" /\ modelC.calibrated
    /\ ~Val(modelC.base_data).closed /\ Val(modelC.cal_data).closed

====
